---------------------------- MODULE Spec2Model ----------------------------
(***************************************************************************)
(* ltl::ntbs (ntbs.hpp): concatenation (cat) and slicing (cut) of          *)
(* statically sized, null-terminated byte strings.                         *)
(*                                                                         *)
(* One call of cat or cut is modelled as a small state machine: the call   *)
(* is instantiated (where the compile-time size arithmetic and the         *)
(* static_assert act), the optional NTBS_NULL_CHECK runs argument by       *)
(* argument, the result array is value-initialised, the bytes are copied   *)
(* argument by argument, and the array is returned.  Every byte index      *)
(* read from an argument and written to the result is recorded.            *)
(*                                                                         *)
(* C arrays are 0-based, TLA+ sequences 1-based: a[j] is bytes[j + 1].     *)
(***************************************************************************)
EXTENDS Integers, Sequences, FiniteSets

\* ---- bounds of the model ----
MaxByte   == 1   \* bytes are 0..MaxByte, 0 is the terminator
MaxTotal  == 3   \* largest total storage (bytes) of the arguments of one cat call
MaxCutLen == 3   \* largest declared size of a char[N] / array<N> given to cut
MaxSep    == 2   \* largest number of separator chars of one cat call
MaxHello  == 4   \* largest declared size of hello_world in the hello program

VARIABLES
    nullCheck,      \* NTBS_NULL_CHECK is defined in this build
    pc,             \* position of the current call
    op,             \* "none", "cat" or "cut"
    args,           \* the arguments cs... (cat) or <<a>> (cut)
    sep,            \* template char... sep
    B, E,           \* template int32_t B, E of cut
    i,              \* index of the next argument the fold expression visits
    acc,            \* the result array (acc in cat, chars in cut)
    p,              \* char* p of cat, as an offset into acc
    reads,          \* <<argument, index>> of every byte read from an argument
    writes,         \* index of every byte stored into the result by the copy
    checked,        \* arguments whose terminator the null check has read
    err,            \* diagnostic of a rejected or throwing call
    \* hello_world.cpp
    hello_world, k, hello_comma, world_exclaim, stage

callvars == <<pc, op, args, sep, B, E, i, acc, p, reads, writes, checked, err>>
hvars    == <<hello_world, k, hello_comma, world_exclaim, stage>>
vars     == <<nullCheck, pc, op, args, sep, B, E, i, acc, p, reads, writes,
              checked, err, hello_world, k, hello_comma, world_exclaim, stage>>

\* ---- values ----
Bytes == 0..MaxByte

SeqsUpTo(n) == UNION {[1..m -> Bytes] : m \in 0..n}

Zeros(n) == [x \in 1..n |-> 0]

\* a lone char: one byte of storage
CharInputs == {[kind |-> "char", bytes |-> <<c>>] : c \in Bytes}

\* char[N] and ntbs::array<N>, N >= 1, any contents (terminated or not).
\* Both have extent N, sizeof N and data/size overloads that agree, so one
\* kind, "array", stands for the two.
ArrayInputs(maxlen) ==
    {[kind |-> "array", bytes |-> s] : s \in (SeqsUpTo(maxlen) \ {<<>>})}

CatInputs(maxlen) == CharInputs \cup ArrayInputs(maxlen)
CutInputs == CharInputs \cup ArrayInputs(MaxCutLen)

\* the argument packs cs... whose storage adds up to at most total bytes
RECURSIVE ArgLists(_)
ArgLists(total) ==
    IF total <= 0 THEN {<<>>}
    ELSE {<<>>} \cup
         UNION {{<<c>> \o rest : rest \in ArgLists(total - Len(c.bytes))} :
                    c \in CatInputs(total)}

CatArgLists == ArgLists(MaxTotal)

\* ---- generic interface: extent, size, data ----
extent(c) == IF c.kind = "char" THEN 2 ELSE Len(c.bytes)

sizeof(c) == Len(c.bytes)

\* data(c)[j]; a read outside the storage yields an arbitrary byte
data(c, j, junk) == IF j >= 0 /\ j < Len(c.bytes) THEN c.bytes[j + 1] ELSE junk

InStorage(c, j) == j >= 0 /\ j < Len(c.bytes)

\* ---- copy_n ----
copy_n(c, off, sz, dest, at, junk) ==
    [x \in 1..Len(dest) |->
        IF x - 1 >= at /\ x - 1 < at + sz
        THEN data(c, off + (x - 1 - at), junk)
        ELSE dest[x]]

copy_n_src(off, sz) == {off + j : j \in 0..(sz - 1)}

copy_n_dest(at, sz) == {at + j : j \in 0..(sz - 1)}

\* ---- null check ----
\* variant: the check is applied to every argument, a lone char included
null_check_always(c) == TRUE

\* if constexpr ( sizeof(Cs) != 1 || extent_v<Cs> == 1 )
null_check_applies(c) == sizeof(c) # 1 \/ extent(c) = 1

\* variant: the check looks at the first byte instead of the last
cat_check_first(c) == 0

\* dat[sizeof(Cs) - 1] in cat
cat_check_index(c) == sizeof(c) - 1

\* data(a)[N - 1] in cut
cut_check_index(c) == extent(c) - 1

\* ---- cat: size of the result ----
\* variant: the closing term of the fold forgets to take one separator back
RECURSIVE cat_fold_no_gap(_, _)
cat_fold_no_gap(cs, S) ==
    IF cs = <<>> THEN 1
    ELSE (extent(Head(cs)) + S - 1) + cat_fold_no_gap(Tail(cs), S)

RECURSIVE cat_fold(_, _)
cat_fold(cs, S) ==
    IF cs = <<>> THEN 1 - S
    ELSE (extent(Head(cs)) + S - 1) + cat_fold(Tail(cs), S)

\* The fold is evaluated in size_t and converted to the int32_t template
\* argument of array<>: a negative mathematical value wraps above INT32_MAX
\* and the conversion is a narrowing error.
cat_extent(cs, s) == cat_fold(cs, Len(s))

\* ---- cut: indices ----
\* variant: index 0 is taken as end-relative too
ind_zero_from_end(N, x) == IF x <= 0 THEN N + x ELSE x

ind(N, x) == IF x < 0 THEN N + x ELSE x

\* variant: the assertion forgets the upper bound
cut_static_assert_no_upper(N, b0, e0) ==
    0 <= ind(N, b0) /\ ind(N, b0) <= ind(N, e0)

cut_static_assert(N, b0, e0) ==
    0 <= ind(N, b0) /\ ind(N, b0) <= ind(N, e0) /\ ind(N, e0) <= N

cut_M(N, b0, e0) == ind(N, e0) - ind(N, b0)

\* data(a) inside cut is looked up where cut is defined, before the
\* data(char const&) overload is declared: only char[N] and array<N> match.
cut_data_found(c) == c.kind # "char"

\* ---- operator== (array on the left) ----
eq(lhs, rhs) ==
    /\ Len(lhs) = extent(rhs)
    /\ \A j \in 0..(Len(lhs) - 1) : lhs[j + 1] = data(rhs, j, 0 - 1)

\* ---- the state before a call ----
Idle ==
    /\ pc = "idle" /\ op = "none" /\ args = <<>> /\ sep = <<>>
    /\ B = 0 /\ E = 0 /\ i = 0 /\ acc = <<>> /\ p = 0
    /\ reads = {} /\ writes = {} /\ checked = {} /\ err = ""

Init ==
    /\ nullCheck \in BOOLEAN
    /\ Idle
    /\ hello_world = <<>> /\ k = 0 /\ hello_comma = <<>>
    /\ world_exclaim = <<>> /\ stage = "none"

\* ---- cat ----
CatCall(cs, s) ==
    /\ pc = "idle"
    /\ op' = "cat" /\ args' = cs /\ sep' = s
    /\ i' = 1
    /\ UNCHANGED <<nullCheck, B, E, acc, p, reads, writes, checked>>
    /\ \/ /\ cat_extent(cs, s) < 0
          /\ pc' = "rejected" /\ err' = "narrowing conversion"
       \/ /\ cat_extent(cs, s) = 0      \* array<0>: ill-formed in ISO C++
          /\ pc' = "rejected" /\ err' = "zero-size array"
       \/ /\ cat_extent(cs, s) = 0      \* array<0>: accepted as an extension
          /\ pc' = (IF nullCheck THEN "check" ELSE "alloc") /\ err' = ""
       \/ /\ cat_extent(cs, s) > 0
          /\ pc' = (IF nullCheck THEN "check" ELSE "alloc") /\ err' = ""

CatNullCheck ==
    /\ pc = "check" /\ op = "cat"
    /\ UNCHANGED <<nullCheck, op, args, sep, B, E, acc, p, writes>>
    /\ UNCHANGED hvars
    /\ IF i > Len(args)
       THEN /\ pc' = "alloc" /\ i' = 1
            /\ UNCHANGED <<reads, checked, err>>
       ELSE IF ~null_check_applies(args[i])
       THEN /\ i' = i + 1
            /\ UNCHANGED <<pc, reads, checked, err>>
       ELSE \E junk \in (IF InStorage(args[i], cat_check_index(args[i]))
                         THEN {0} ELSE Bytes) :
            /\ reads' = reads \cup {<<i, cat_check_index(args[i])>>}
            /\ checked' = checked \cup {i}
            /\ IF data(args[i], cat_check_index(args[i]), junk) # 0
               THEN /\ pc' = "thrown"
                    /\ err' = "ntbs::cut arg not null-terminated"
                    /\ i' = i
               ELSE /\ i' = i + 1
                    /\ UNCHANGED <<pc, err>>

CatAlloc ==
    /\ pc = "alloc" /\ op = "cat"
    /\ acc' = Zeros(cat_extent(args, sep))
    /\ p' = 0 /\ i' = 1
    /\ pc' = "copy"
    /\ UNCHANGED <<nullCheck, op, args, sep, B, E, reads, writes, checked, err>>
    /\ UNCHANGED hvars

\* p after the separator step: p == acc ? p : (((*p++ = sep), ...), p)
cat_sep_p(q, s) == IF q = 0 THEN q ELSE q + Len(s)

cat_sep_acc(dest, q, s) ==
    IF q = 0 THEN dest
    ELSE [x \in 1..Len(dest) |->
            IF x - 1 >= q /\ x - 1 < q + Len(s) THEN s[x - q] ELSE dest[x]]

cat_sep_dest(q, s) == IF q = 0 THEN {} ELSE copy_n_dest(q, Len(s))

\* variant: the terminator slot is copied too
cat_copy_extent(c) == extent(c)

\* number of bytes cat copies from one argument
cat_copy_size(c) == extent(c) - 1

CatSepCopy ==
    /\ pc = "copy" /\ op = "cat" /\ i <= Len(args)
    /\ LET c  == args[i]
           q  == cat_sep_p(p, sep)
           sz == cat_copy_size(c)
       IN  \E junk \in (IF \A j \in copy_n_src(0, sz) : InStorage(c, j)
                        THEN {0} ELSE Bytes) :
            /\ acc' = copy_n(c, 0, sz, cat_sep_acc(acc, p, sep), q, junk)
            /\ p' = q + sz
            /\ reads' = reads \cup {<<i, j>> : j \in copy_n_src(0, sz)}
            /\ writes' = writes \cup cat_sep_dest(p, sep) \cup copy_n_dest(q, sz)
    /\ i' = i + 1
    /\ UNCHANGED <<nullCheck, pc, op, args, sep, B, E, checked, err>>
    /\ UNCHANGED hvars

CatReturn ==
    /\ pc = "copy" /\ op = "cat" /\ i > Len(args)
    /\ pc' = "done"
    /\ UNCHANGED <<nullCheck, op, args, sep, B, E, i, acc, p, reads, writes,
                   checked, err>>
    /\ UNCHANGED hvars

\* ---- cut ----
CutCall(a, b0, e0) ==
    /\ pc = "idle"
    /\ op' = "cut" /\ args' = <<a>> /\ B' = b0 /\ E' = e0
    /\ i' = 1
    /\ UNCHANGED <<nullCheck, sep, acc, p, reads, writes, checked>>
    /\ IF ~cut_static_assert(extent(a), b0, e0)
       THEN pc' = "rejected" /\ err' = "index out of bounds"
       ELSE IF ~cut_data_found(a)
       THEN pc' = "rejected" /\ err' = "no matching function for call to data"
       ELSE pc' = (IF nullCheck THEN "check" ELSE "alloc") /\ err' = ""

CutNullCheck ==
    /\ pc = "check" /\ op = "cut"
    /\ UNCHANGED <<nullCheck, op, args, sep, B, E, i, acc, p, writes>>
    /\ UNCHANGED hvars
    /\ IF ~null_check_applies(args[1])
       THEN /\ pc' = "alloc"
            /\ UNCHANGED <<reads, checked, err>>
       ELSE \E junk \in (IF InStorage(args[1], cut_check_index(args[1]))
                         THEN {0} ELSE Bytes) :
            /\ reads' = reads \cup {<<1, cut_check_index(args[1])>>}
            /\ checked' = checked \cup {1}
            /\ IF data(args[1], cut_check_index(args[1]), junk) # 0
               THEN /\ pc' = "thrown"
                    /\ err' = "ntbs::cut arg not null-terminated"
               ELSE /\ pc' = "alloc"
                    /\ UNCHANGED err

CutAlloc ==
    /\ pc = "alloc" /\ op = "cut"
    /\ acc' = Zeros(cut_M(extent(args[1]), B, E) + 1)
    /\ pc' = "copy"
    /\ UNCHANGED <<nullCheck, op, args, sep, B, E, i, p, reads, writes,
                   checked, err>>
    /\ UNCHANGED hvars

CutCopy ==
    /\ pc = "copy" /\ op = "cut"
    /\ LET a  == args[1]
           b  == ind(extent(a), B)
           M  == cut_M(extent(a), B, E)
       IN  \E junk \in (IF \A j \in copy_n_src(b, M) : InStorage(a, j)
                        THEN {0} ELSE Bytes) :
            /\ acc' = copy_n(a, b, M, acc, 0, junk)
            /\ reads' = reads \cup {<<1, j>> : j \in copy_n_src(b, M)}
            /\ writes' = writes \cup copy_n_dest(0, M)
    /\ pc' = "done"
    /\ UNCHANGED <<nullCheck, op, args, sep, B, E, i, p, checked, err>>
    /\ UNCHANGED hvars

\* ---- any call of the library ----
CallCat ==
    /\ pc = "idle"
    /\ \E cs \in CatArgLists : \E s \in SeqsUpTo(MaxSep) : CatCall(cs, s)
    /\ UNCHANGED hvars

CutIndices == (0 - (MaxCutLen + 1))..(MaxCutLen + 1)

CallCut ==
    /\ pc = "idle"
    /\ \E a \in CutInputs : \E b0 \in CutIndices : \E e0 \in CutIndices :
            CutCall(a, b0, e0)
    /\ UNCHANGED hvars

Next ==
    \/ CallCat
    \/ CatNullCheck
    \/ CatAlloc
    \/ CatSepCopy
    \/ CatReturn
    \/ CallCut
    \/ CutNullCheck
    \/ CutAlloc
    \/ CutCopy

Spec == Init /\ [][Next]_vars

\* ---- hello_world.cpp: cut a string in two and join the halves again ----
\* hello_world is any properly terminated array<N>, N >= 2; hello_comma is
\* its prefix [0,k), world_exclaim its suffix [k+1,N-1), and the last line
\* joins them with the char at k (',' ' ' '!' of the original generalised).
HelloWorlds ==
    {[kind |-> "array", bytes |-> s \o <<0>>] :
        s \in (SeqsUpTo(MaxHello - 1) \ {<<>>})}

InitHello ==
    /\ nullCheck \in BOOLEAN
    /\ Idle
    /\ hello_world \in HelloWorlds
    /\ k \in 0..(MaxHello - 2)
    /\ k <= Len(hello_world.bytes) - 2
    /\ hello_comma = <<>> /\ world_exclaim = <<>>
    /\ stage = "hello_world"

\* the returned array initialises a constexpr variable; the call is over
Returned ==
    /\ pc' = "idle" /\ op' = "none" /\ args' = <<>> /\ sep' = <<>>
    /\ B' = 0 /\ E' = 0 /\ i' = 0 /\ acc' = <<>> /\ p' = 0
    /\ reads' = {} /\ writes' = {} /\ checked' = {} /\ err' = ""
    /\ UNCHANGED nullCheck

\* constexpr auto hello_comma = cut<0,k>(hello_world);
HelloCommaCut ==
    /\ stage = "hello_world" /\ pc = "idle"
    /\ CutCall(hello_world, 0, k)
    /\ stage' = "hello_comma"
    /\ UNCHANGED <<hello_world, k, hello_comma, world_exclaim>>

HelloCommaInit ==
    /\ stage = "hello_comma" /\ pc = "done"
    /\ hello_comma' = [kind |-> "array", bytes |-> acc]
    /\ Returned
    /\ stage' = "hello_comma_done"
    /\ UNCHANGED <<hello_world, k, world_exclaim>>

\* constexpr auto world_exclaim = cut<k+1>(hello_world);
WorldExclaimCut ==
    /\ stage = "hello_comma_done" /\ pc = "idle"
    /\ CutCall(hello_world, k + 1, 0 - 1)
    /\ stage' = "world_exclaim"
    /\ UNCHANGED <<hello_world, k, hello_comma, world_exclaim>>

WorldExclaimInit ==
    /\ stage = "world_exclaim" /\ pc = "done"
    /\ world_exclaim' = [kind |-> "array", bytes |-> acc]
    /\ Returned
    /\ stage' = "world_exclaim_done"
    /\ UNCHANGED <<hello_world, k, hello_comma>>

\* cat<hello_world[k]>(hello_comma, world_exclaim)
HelloCat ==
    /\ stage = "world_exclaim_done" /\ pc = "idle"
    /\ CatCall(<<hello_comma, world_exclaim>>, <<data(hello_world, k, 0)>>)
    /\ stage' = "cat"
    /\ UNCHANGED <<hello_world, k, hello_comma, world_exclaim>>

NextHello ==
    \/ HelloCommaCut
    \/ HelloCommaInit
    \/ WorldExclaimCut
    \/ WorldExclaimInit
    \/ HelloCat
    \/ CatNullCheck
    \/ CatAlloc
    \/ CatSepCopy
    \/ CatReturn
    \/ CutNullCheck
    \/ CutAlloc
    \/ CutCopy

SpecHello == InitHello /\ [][NextHello]_vars

\* ======================= properties =======================

\* C1: for a cat call with n >= 1 arguments of declared lengths L_1..L_n
\* (a lone char counts 2) and S separator chars, the call is accepted and
\* the result array has (L_1-1)+...+(L_n-1) + S*(n-1) + 1 elements; the
\* number depends on the declared lengths only.
C1_CatCapacity ==
    (op = "cat" /\ Len(args) >= 1) =>
        /\ pc # "rejected"
        /\ pc \in {"copy", "done"} =>
            LET n == Len(args)
                L(j) == IF args[j].kind = "char" THEN 2 ELSE Len(args[j].bytes)
                Sum[j \in 0..n] == IF j = 0 THEN 0 ELSE Sum[j - 1] + (L(j) - 1)
            IN  Len(acc) = Sum[n] + Len(sep) * (n - 1) + 1

C1_Witness ==
    /\ op = "cat" /\ pc = "done" /\ Len(args) = 3 /\ Len(sep) = 2
    /\ args[1].kind = "char" /\ args[2].kind = "array" /\ args[3].kind = "char"
    /\ Len(acc) = 7

\* C2: the result of cat with n >= 1 arguments is the bytes of argument 1
\* without its terminator, then for each further argument the whole
\* separator followed by that argument's bytes, then one terminator: the
\* separator stands between every two consecutive arguments, empty
\* arguments included.
C2_CatContent ==
    (op = "cat" /\ pc = "done" /\ Len(args) >= 1) =>
        LET n == Len(args)
            Payload(c) == IF c.kind = "char" THEN c.bytes
                          ELSE SubSeq(c.bytes, 1, Len(c.bytes) - 1)
            Join[j \in 1..n] == IF j = 1 THEN Payload(args[1])
                                ELSE Join[j - 1] \o sep \o Payload(args[j])
        IN  acc = Join[n] \o <<0>>

\* C3: cat with no arguments returns, whatever the separator list, the
\* one-element array holding the terminator, equal to cat("") and cut("").
C3_EmptyCat ==
    (op = "cat" /\ Len(args) = 0) =>
        /\ pc # "rejected"
        /\ pc = "done" =>
            /\ acc = <<0>>
            /\ eq(acc, [kind |-> "array", bytes |-> <<0>>])

\* C4: an accepted cut<B,E>(a), with a of declared length N and a negative
\* index x standing for N+x, returns an array of (e-b)+1 elements holding
\* a[b..e-1] in order and then 0; cut<-k>(a) is cut<N-k,N-1>(a).
C4_CutContent ==
    (op = "cut" /\ pc = "done") =>
        LET a == args[1].bytes
            N == Len(a)
            b == IF B < 0 THEN N + B ELSE B
            e == IF E < 0 THEN N + E ELSE E
        IN  /\ Len(acc) = (e - b) + 1
            /\ \A j \in 0..(e - b - 1) : acc[j + 1] = a[b + j + 1]
            /\ acc[Len(acc)] = 0
            /\ (B < 0 /\ E = 0 - 1) => acc = SubSeq(a, N + B + 1, N - 1) \o <<0>>

C4_Witness ==
    /\ op = "cut" /\ pc = "done" /\ B = 0 - 2 /\ E = 0 - 1
    /\ args[1].bytes = <<0, 1, 0>> /\ acc = <<1, 0>>

C6_NullCheck ==
    LET Unterminated(c) == c.kind # "char" /\ c.bytes[Len(c.bytes)] # 0
    IN  /\ (nullCheck /\ pc \in {"alloc", "copy", "done"}) =>
                \A j \in 1..Len(args) : ~Unterminated(args[j])
        /\ pc \in {"check", "thrown"} => (acc = <<>> /\ writes = {})
        /\ pc = "thrown" =>
                /\ nullCheck
                /\ err = "ntbs::cut arg not null-terminated"
                /\ \E j \in 1..Len(args) : Unterminated(args[j])
        /\ ~nullCheck => (pc \notin {"check", "thrown"} /\ checked = {})

C6_Witness ==
    /\ nullCheck /\ op = "cat" /\ pc = "thrown" /\ Len(args) = 3 /\ i = 3
    /\ args[3].kind = "array" /\ args[3].bytes = <<1>>
    /\ checked = {2, 3} /\ writes = {} /\ acc = <<>>

\* C7: for a properly terminated a of declared length N and 0 <= k <= N-2,
\* cat<a[k]>(cut<0,k>(a), cut<k+1>(a)) == a, with N elements.
C7_RoundTrip ==
    (stage = "cat" /\ pc = "done") =>
        /\ Len(acc) = Len(hello_world.bytes)
        /\ eq(acc, hello_world)

\* C8: every array returned by cat or cut has at least one element and
\* its last element is 0.
C8_Terminated ==
    pc = "done" => (Len(acc) >= 1 /\ acc[Len(acc)] = 0)

\* C9 as stated: with the null check enabled, cat checks the terminator of
\* every argument, a lone char included.
C9_EveryInputChecked ==
    (nullCheck /\ op = "cat" /\ pc \in {"alloc", "copy", "done"}) =>
        checked = 1..Len(args)

\* C9 amended: with the null check enabled, cat checks the terminator of
\* every char[N] and array<N> argument (N = 1 included) and of no lone
\* char: a lone char is exempt.
C9_CharExempt ==
    (nullCheck /\ op = "cat") =>
        /\ \A j \in checked : args[j].kind # "char"
        /\ pc \in {"alloc", "copy", "done"} =>
                checked = {j \in 1..Len(args) : args[j].kind # "char"}

C9_Witness ==
    /\ nullCheck /\ op = "cat" /\ pc = "done" /\ Len(args) = 3
    /\ args[1].kind = "char" /\ args[1].bytes = <<1>>
    /\ args[2].kind = "array" /\ args[2].bytes = <<0>>
    /\ args[3].kind = "array"
    /\ checked = {2, 3}

\* C10: in both check modes, every byte read from an argument lies inside
\* that argument's storage (index 0 only for a lone char) and every byte
\* the copy stores lies in [0, capacity-1) of the result.
C10_InBounds ==
    /\ \A r \in reads :
            /\ r[1] \in 1..Len(args)
            /\ r[2] >= 0
            /\ r[2] < (IF args[r[1]].kind = "char" THEN 1
                       ELSE Len(args[r[1]].bytes))
    /\ \A w \in writes : w >= 0 /\ w < Len(acc) - 1

C10_Witness ==
    /\ op = "cat" /\ pc = "done" /\ nullCheck
    /\ Len(args) = 2 /\ args[1].kind = "array" /\ args[2].kind = "char"
    /\ <<2, 0>> \in reads /\ <<1, 1>> \in reads
    /\ writes = {0, 1, 2}
=============================================================================
